---- MODULE Spec2Model ----
(***************************************************************************)
(* Beer tracker: the Record Store (consumption_records, beers), the        *)
(* RecordPage replace-on-save handler, the StatsPage fetch/aggregation     *)
(* logic, the HomePage summary and the BeersPage ordering operations.      *)
(*                                                                         *)
(* Conventions                                                             *)
(*  - a date-only string 'yyyy-MM-dd' is a record [y, m, d] (m in 1..12);  *)
(*    string comparison of such dates is chronological comparison;         *)
(*  - quantities, volumes and alcohol percentages are integers of a fixed  *)
(*    unit, so every sum the code forms is exact;                          *)
(*  - an alcohol amount is kept as 100 times the value the code computes   *)
(*    (volume * alcohol_percentage * quantity, before the "/ 100");        *)
(*  - averageDaily is kept in hundredths (the code rounds to 2 decimals).  *)
(***************************************************************************)
EXTENDS Integers, Sequences, FiniteSets, Bags, TLC

VARIABLES
    \* ---- Record Store (remote) ----
    store,            \* consumption_records rows of the signed-in user (a bag: row -> copies)
    beerStore,        \* beers rows of the signed-in user
    \* ---- environment ----
    tz,               \* browser UTC offset in hours
    now,              \* local calendar date read by "new Date()"
    \* ---- RecordPage ----
    selectedDate, records, existingRecords, loading, saving,
    loads,            \* loadRecords requests in flight
    save,             \* the last handleSave: its closure, its position, how it ended
    \* ---- StatsPage ----
    currentDate, statsRecords, yearlyStats, statsLoading, view,
    fetches,          \* loadMonthlyRecords / loadYearlyStats requests in flight
    \* ---- HomePage ----
    stats,
    \* ---- BeersPage ----
    beers, beersLoading, editingBeer, nextBeerId,
    \* ---- aggregation harness ----
    data,             \* a record list as a fetch returns it
    pc

storeVars  == <<store, beerStore>>
envVars    == <<tz, now>>
recordVars == <<selectedDate, records, existingRecords, loading, saving, loads, save>>
statsVars  == <<currentDate, statsRecords, yearlyStats, statsLoading, view, fetches>>
homeVars   == <<stats>>
beersVars  == <<beers, beersLoading, editingBeer, nextBeerId>>
aggVars    == <<data, pc>>
vars == <<storeVars, envVars, recordVars, statsVars, homeVars, beersVars, aggVars>>

(***************************************************************************)
(* Bounds                                                                  *)
(***************************************************************************)
MaxLen == 3          \* longest record list given to the aggregation functions
MaxRows == 2         \* most consumption_records rows the store holds
MaxLoads == 1        \* most loadRecords requests in flight at once
MaxFetches == 2      \* most StatsPage fetches in flight at once
MaxBeers == 3        \* most beers ever created
MaxStoreBeers == 2   \* most beers ever created by the two owners together

(***************************************************************************)
(* Generic helpers                                                         *)
(***************************************************************************)
RECURSIVE SetSum(_, _)
\* Sum of F[x] over the finite set S.
SetSum(S, F) ==
    IF S = {} THEN 0
    ELSE LET x == CHOOSE x \in S : TRUE IN F[x] + SetSum(S \ {x}, F)

\* All sequences over S of length at most n.
SeqsUpTo(S, n) == UNION { [1..k -> S] : k \in 0..n }

\* The rearrangements of the sequence s.
Rearrangements(s) ==
    { [i \in 1..Len(s) |-> s[p[i]]] : p \in Permutations(1..Len(s)) }

NoDate == [y |-> 0, m |-> 0, d |-> 0]

Date(y, m, d) == [y |-> y, m |-> m, d |-> d]

\* The join "beer:beers(name, volume, alcohol_percentage)" of a record whose
\* beer row is not found.
NullBeer == [null |-> TRUE, volume |-> 0, alcohol_percentage |-> 0]
Beer(volume, abv) == [null |-> FALSE, volume |-> volume, alcohol_percentage |-> abv]

(***************************************************************************)
(* Calendar (date-fns / JS Date)                                           *)
(***************************************************************************)
IsLeap(y) == (y % 4 = 0 /\ y % 100 # 0) \/ y % 400 = 0

DaysInMonth(y, m) ==
    IF m = 2 THEN (IF IsLeap(y) THEN 29 ELSE 28)
    ELSE IF m \in {4, 6, 9, 11} THEN 30 ELSE 31

PrevDay(dt) ==
    IF dt.d > 1 THEN [dt EXCEPT !.d = dt.d - 1]
    ELSE IF dt.m > 1 THEN [y |-> dt.y, m |-> dt.m - 1, d |-> DaysInMonth(dt.y, dt.m - 1)]
    ELSE [y |-> dt.y - 1, m |-> 12, d |-> 31]

\* (variant) the bound itself is excluded
DateLeq_Strict(a, b) ==
    \/ a.y < b.y
    \/ a.y = b.y /\ a.m < b.m
    \/ a.y = b.y /\ a.m = b.m /\ a.d < b.d

\* 'yyyy-MM-dd' string order.
DateLeq(a, b) ==
    \/ a.y < b.y
    \/ a.y = b.y /\ a.m < b.m
    \/ a.y = b.y /\ a.m = b.m /\ a.d <= b.d

\* new Date('yyyy-MM-dd') is midnight UTC of that day; date-fns reads a Date in
\* local time, so its local calendar day is the previous day west of UTC.
LocalDay(dateStr) == IF tz < 0 THEN PrevDay(dateStr) ELSE dateStr

\* format(new Date(record.date), 'yyyy-MM')
MonthKeyOf(dateStr) == LET l == LocalDay(dateStr) IN <<l.y, l.m>>

\* isSameDay(new Date(record.date), date) for a local calendar day `date`
isSameDay(dateStr, date) == LocalDay(dateStr) = date

startOfMonth(dt) == [dt EXCEPT !.d = 1]
endOfMonth(dt)   == [dt EXCEPT !.d = DaysInMonth(dt.y, dt.m)]
getYear(dt)      == dt.y

(***************************************************************************)
(* StatsPage: derived figures                                              *)
(***************************************************************************)
\* (variant) the quantity is left out of the product
AlcoholOf_NoQuantity(record) ==
    IF ~record.beer.null
    THEN record.beer.volume * record.beer.alcohol_percentage
    ELSE 0

\* volume * alcohol_percentage * quantity (the code's value times 100);
\* a record whose join found no beer adds nothing.
AlcoholOf(record) ==
    IF ~record.beer.null
    THEN record.beer.volume * record.beer.alcohol_percentage * record.quantity
    ELSE 0

RECURSIVE ReduceQuantity(_, _, _)
ReduceQuantity(recs, i, sum) ==
    IF i > Len(recs) THEN sum
    ELSE ReduceQuantity(recs, i + 1, sum + recs[i].quantity)

RECURSIVE ReduceAlcohol(_, _, _)
ReduceAlcohol(recs, i, sum) ==
    IF i > Len(recs) THEN sum
    ELSE ReduceAlcohol(recs, i + 1, sum + AlcoholOf(recs[i]))

RECURSIVE DateSet(_, _, _)
\* new Set(records.map(r => r.date)): dates are added one at a time.
DateSet(recs, i, set) ==
    IF i > Len(recs) THEN set
    ELSE DateSet(recs, i + 1, set \cup {recs[i].date})

\* (variant) reduce without its initial value: the first record is not added
getMonthTotalOf_NoInitial(recs) == ReduceQuantity(recs, 2, 0)
getMonthTotalOf(recs)   == ReduceQuantity(recs, 1, 0)

getMonthAlcoholOf(recs) == ReduceAlcohol(recs, 1, 0)

\* (variant) counts the records instead of the distinct dates
drinkingDaysOf_CountRecords(recs) == Len(recs)
drinkingDaysOf(recs)    == Cardinality(DateSet(recs, 1, {}))

getMonthTotal   == getMonthTotalOf(statsRecords)
getMonthAlcohol == getMonthAlcoholOf(statsRecords)
drinkingDays    == drinkingDaysOf(statsRecords)

getDayRecords(date) == SelectSeq(statsRecords, LAMBDA r : isSameDay(r.date, date))
getDayTotal(date)   == ReduceQuantity(getDayRecords(date), 1, 0)

getDaysInMonth ==
    { [y |-> currentDate.y, m |-> currentDate.m, d |-> dd] :
        dd \in 1..DaysInMonth(currentDate.y, currentDate.m) }

\* The calendar cell of `date` shows a total: {dayTotal > 0 && <span>...}
DayCellShowsTotal(date) == getDayTotal(date) > 0

\* The month summary the page renders: its three figures.
MonthSummary ==
    [totalQuantity |-> getMonthTotal,
     totalAlcohol  |-> getMonthAlcohol,
     drinkingDays  |-> drinkingDays]

(***************************************************************************)
(* StatsPage.loadYearlyStats: group by month                               *)
(***************************************************************************)
\* index of the entry of monthlyData whose key is `month`, 0 when there is none
MonthIndex(monthlyData, month) ==
    IF \E i \in 1..Len(monthlyData) : monthlyData[i].month = month
    THEN CHOOSE i \in 1..Len(monthlyData) : monthlyData[i].month = month
    ELSE 0

\* One pass of the forEach body; monthlyData keeps its keys in insertion order.
AddToMonth(monthlyData, record) ==
    LET month == MonthKeyOf(record.date)
        fresh == [month |-> month, totalQuantity |-> 0, totalAlcohol |-> 0,
                  daysConsumed |-> {}]
        md    == IF MonthIndex(monthlyData, month) = 0
                 THEN Append(monthlyData, fresh) ELSE monthlyData
        i     == MonthIndex(md, month)
    IN [md EXCEPT ![i] =
            [month |-> month,
             totalQuantity |-> md[i].totalQuantity + record.quantity,
             totalAlcohol  |-> md[i].totalAlcohol + AlcoholOf(record),
             daysConsumed  |-> md[i].daysConsumed \cup {record.date}]]

RECURSIVE GroupByMonth(_, _, _)
GroupByMonth(recs, i, monthlyData) ==
    IF i > Len(recs) THEN monthlyData
    ELSE GroupByMonth(recs, i + 1, AddToMonth(monthlyData, recs[i]))

\* Object.values(monthlyData).map(d => ({...d, daysConsumed: d.daysConsumed.size}))
MonthlyStats(recs) ==
    LET monthlyData == GroupByMonth(recs, 1, <<>>)
    IN [i \in 1..Len(monthlyData) |->
            [month |-> monthlyData[i].month,
             totalQuantity |-> monthlyData[i].totalQuantity,
             totalAlcohol  |-> monthlyData[i].totalAlcohol,
             daysConsumed  |-> Cardinality(monthlyData[i].daysConsumed)]]

\* The yearly summary: yearlyStats.reduce(...) of each figure.
YearlySummary ==
    [totalQuantity |-> SetSum(DOMAIN yearlyStats, [i \in DOMAIN yearlyStats |-> yearlyStats[i].totalQuantity]),
     totalAlcohol  |-> SetSum(DOMAIN yearlyStats, [i \in DOMAIN yearlyStats |-> yearlyStats[i].totalAlcohol]),
     daysConsumed  |-> SetSum(DOMAIN yearlyStats, [i \in DOMAIN yearlyStats |-> yearlyStats[i].daysConsumed])]

\* The monthly breakdown: the row of month index `index` (0..11).
MonthRow(index) ==
    LET monthKey == <<getYear(currentDate), index + 1>>
        found == { i \in DOMAIN yearlyStats : yearlyStats[i].month = monthKey }
    IN IF found = {}
       THEN [totalQuantity |-> 0, totalAlcohol |-> 0, daysConsumed |-> 0]
       ELSE LET i == CHOOSE i \in found : \A j \in found : i <= j
            IN [totalQuantity |-> yearlyStats[i].totalQuantity,
                totalAlcohol  |-> yearlyStats[i].totalAlcohol,
                daysConsumed  |-> yearlyStats[i].daysConsumed]

MonthRows == [index \in 0..11 |-> MonthRow(index)]

(***************************************************************************)
(* HomePage.loadStats                                                      *)
(***************************************************************************)
\* .gte('date', monthStart).lte('date', monthEnd) on the rows `rows`
InRange(rows, from, to) ==
    SelectSeq(rows, LAMBDA r : DateLeq(from, r.date) /\ DateLeq(r.date, to))

\* Math.round(x * 100) / 100 of x = total / days, in hundredths (total >= 0, days >= 1)
RoundedAverage(total, days) == (200 * total + days) \div (2 * days)

\* (variant) divides by the length of the month instead of the day of the month
HomeStats_WholeMonth(rows, today, monthlyOk, totalOk) ==
    LET monthlyData == InRange(rows, startOfMonth(today), endOfMonth(today))
        thisMonthTotal == IF monthlyOk THEN ReduceQuantity(monthlyData, 1, 0) ELSE 0
        totalConsumption == IF totalOk THEN ReduceQuantity(rows, 1, 0) ELSE 0
    IN [loaded |-> TRUE,
        thisMonthConsumption |-> thisMonthTotal,
        totalConsumption |-> totalConsumption,
        averageDaily |-> RoundedAverage(thisMonthTotal, DaysInMonth(today.y, today.m))]

\* The object given to setStats; monthlyOk / totalOk say whether each query
\* returned rows (a failed query leaves data null, and "|| 0" makes it 0).
HomeStats(rows, today, monthlyOk, totalOk) ==
    LET monthlyData == InRange(rows, startOfMonth(today), endOfMonth(today))
        thisMonthTotal == IF monthlyOk THEN ReduceQuantity(monthlyData, 1, 0) ELSE 0
        totalConsumption == IF totalOk THEN ReduceQuantity(rows, 1, 0) ELSE 0
        daysInMonth == today.d
    IN [loaded |-> TRUE,
        thisMonthConsumption |-> thisMonthTotal,
        totalConsumption |-> totalConsumption,
        averageDaily |-> RoundedAverage(thisMonthTotal, daysInMonth)]

NoStats == [loaded |-> FALSE, thisMonthConsumption |-> 0, totalConsumption |-> 0,
            averageDaily |-> 0]

(***************************************************************************)
(* Idle values of each page's state (the page is not mounted)              *)
(***************************************************************************)
NoSave == [pc |-> "idle", date |-> NoDate, records |-> <<>>, existing |-> 0,
           deleted |-> FALSE, retry |-> FALSE]

IdleStore  == store = EmptyBag /\ beerStore = {}
IdleRecord ==
    /\ selectedDate = NoDate /\ records = <<>> /\ existingRecords = <<>>
    /\ loading = FALSE /\ saving = FALSE /\ loads = EmptyBag /\ save = NoSave
IdleStats ==
    /\ currentDate = NoDate /\ statsRecords = <<>> /\ yearlyStats = <<>>
    /\ statsLoading = FALSE /\ view = "calendar" /\ fetches = EmptyBag
IdleHome  == stats = NoStats
NoBeer == [id |-> 0, sort_order |-> 0, volume |-> 0, alcohol_percentage |-> 0]
IdleBeers == beers = <<>> /\ beersLoading = FALSE /\ editingBeer = NoBeer /\ nextBeerId = 1
IdleAgg   == data = <<>> /\ pc = "idle"

(***************************************************************************)
(* Aggregation harness: the aggregation code applied to a fetched list     *)
(***************************************************************************)
TimeZones == {-5, 0, 9}          \* New York (standard time), UTC, Seoul

AggDates == { Date(2024, 1, 1), Date(2024, 1, 15), Date(2024, 2, 1) }
AggBeers == { NullBeer, Beer(500, 5) }
AggRows  == [date : AggDates, beer : AggBeers, quantity : {1, 2}]
AggToday == { Date(2024, 1, 1), Date(2024, 1, 3), Date(2024, 1, 20) }

AggInit ==
    /\ IdleStore /\ IdleRecord /\ IdleBeers /\ IdleHome
    /\ tz \in TimeZones
    /\ now = Date(2024, 1, 20)
    /\ data \in SeqsUpTo(AggRows, MaxLen)
    /\ pc = "fetched"
    /\ currentDate = Date(2024, 1, 20)
    /\ statsRecords = <<>> /\ yearlyStats = <<>>
    /\ statsLoading = TRUE /\ view \in {"calendar", "yearly"} /\ fetches = EmptyBag

\* loadMonthlyRecords after the await: setRecords(data || []); setLoading(false)
AggSetRecords ==
    /\ pc = "fetched" /\ view = "calendar"
    /\ statsRecords' = data
    /\ statsLoading' = FALSE
    /\ pc' = "monthly"
    /\ UNCHANGED <<storeVars, envVars, recordVars, homeVars, beersVars,
                   currentDate, yearlyStats, view, fetches, data>>

\* loadYearlyStats after the await: group, setYearlyStats(stats); setLoading(false)
AggSetYearlyStats ==
    /\ pc = "fetched" /\ view = "yearly"
    /\ yearlyStats' = MonthlyStats(data)
    /\ statsLoading' = FALSE
    /\ pc' = "yearly"
    /\ UNCHANGED <<storeVars, envVars, recordVars, homeVars, beersVars,
                   currentDate, statsRecords, view, fetches, data>>

\* HomePage.loadStats with `data` as the user's rows
AggLoadStats ==
    /\ pc = "fetched" /\ view = "calendar"
    /\ \E today \in AggToday, monthlyOk \in BOOLEAN, totalOk \in BOOLEAN :
        /\ now' = today
        /\ stats' = HomeStats(data, today, monthlyOk, totalOk)
    /\ pc' = "home"
    /\ UNCHANGED <<storeVars, tz, recordVars, statsVars, beersVars, data>>

AggNext == AggSetRecords \/ AggSetYearlyStats \/ AggLoadStats

SpecAgg == AggInit /\ [][AggNext]_vars

(***************************************************************************)
(* Properties of the aggregation code (checked under SpecAgg)              *)
(***************************************************************************)
\* What the claims call "the sum over records": sums over the index set of a
\* list, formed in no particular order.
QuantitySum(recs, idx) == SetSum(idx, [i \in DOMAIN recs |-> recs[i].quantity])
AlcoholSum(recs, idx) ==
    SetSum(idx, [i \in DOMAIN recs |->
                    IF recs[i].beer.null THEN 0
                    ELSE recs[i].quantity * recs[i].beer.volume
                            * recs[i].beer.alcohol_percentage])
DistinctDates(recs, idx) == Cardinality({ recs[i].date : i \in idx })

\* the records of `data` that loadYearlyStats put under the key `month`
GroupMembers(month) == { i \in DOMAIN data : MonthKeyOf(data[i].date) = month }
\* the records of `data` whose calendar date lies in month index `index` of the year
CalendarMonth(index) ==
    { i \in DOMAIN data :
        data[i].date.y = getYear(currentDate) /\ data[i].date.m = index + 1 }

C6_AlcoholIsSum ==
    /\ pc = "monthly" =>
        /\ getMonthAlcohol = AlcoholSum(statsRecords, DOMAIN statsRecords)
        /\ getMonthTotal = QuantitySum(statsRecords, DOMAIN statsRecords)
    /\ pc = "yearly" =>
        \A k \in DOMAIN yearlyStats :
            /\ yearlyStats[k].totalAlcohol = AlcoholSum(data, GroupMembers(yearlyStats[k].month))
            /\ yearlyStats[k].totalQuantity = QuantitySum(data, GroupMembers(yearlyStats[k].month))

C6_Witness ==
    /\ pc = "monthly" /\ Len(statsRecords) = 3
    /\ statsRecords[1].beer.null /\ ~statsRecords[2].beer.null /\ ~statsRecords[3].beer.null
    /\ statsRecords[2].quantity = 2
    /\ getMonthAlcohol = 500 * 5 * 3
    /\ getMonthTotal > 3

\* C7: drinking days is the number of distinct dates among the records (monthly
\* view and each month group of the yearly view); the empty list gives 0 for
\* every summary figure.
C7_DrinkingDaysAreDistinctDates ==
    /\ pc = "monthly" =>
        /\ drinkingDays = DistinctDates(statsRecords, DOMAIN statsRecords)
        /\ (statsRecords = <<>> =>
                getMonthTotal = 0 /\ getMonthAlcohol = 0 /\ drinkingDays = 0)
    /\ pc = "yearly" =>
        /\ \A k \in DOMAIN yearlyStats :
            yearlyStats[k].daysConsumed = DistinctDates(data, GroupMembers(yearlyStats[k].month))
        /\ (data = <<>> =>
                /\ YearlySummary = [totalQuantity |-> 0, totalAlcohol |-> 0, daysConsumed |-> 0]
                /\ \A index \in 0..11 : MonthRow(index) = YearlySummary)

C7_Witness ==
    /\ pc = "monthly" /\ Len(statsRecords) = 3
    /\ statsRecords[1].date = statsRecords[2].date
    /\ statsRecords[3].date # statsRecords[1].date
    /\ drinkingDays = 2

\* the number a is x rounded to the nearest integer (half up), x = num / den
IsRounded(a, num, den) == 2 * den * a <= 2 * num + den /\ 2 * num + den < 2 * den * (a + 1)

\* the rows of `data` dated in the month of `now`
ThisMonth == { i \in DOMAIN data : data[i].date.y = now.y /\ data[i].date.m = now.m }

C9_RowsAddUpToYear ==
    pc = "yearly" =>
        /\ SetSum(0..11, [index \in 0..11 |-> MonthRow(index).totalQuantity])
                = YearlySummary.totalQuantity
        /\ SetSum(0..11, [index \in 0..11 |-> MonthRow(index).totalAlcohol])
                = YearlySummary.totalAlcohol
        /\ YearlySummary.totalQuantity = QuantitySum(data, DOMAIN data)
        /\ YearlySummary.totalAlcohol = AlcoholSum(data, DOMAIN data)
        /\ \A i \in DOMAIN data :
                Cardinality({ index \in 0..11 :
                    MonthKeyOf(data[i].date) = <<getYear(currentDate), index + 1>> }) = 1

\* C10: row m is the aggregation of exactly the records dated in month m of the
\* selected year; a month without records is an all-zero row.
C10_RowIsCalendarMonth ==
    pc = "yearly" =>
        /\ DOMAIN MonthRows = 0..11
        /\ \A index \in 0..11 :
            MonthRow(index) =
                [totalQuantity |-> QuantitySum(data, CalendarMonth(index)),
                 totalAlcohol  |-> AlcoholSum(data, CalendarMonth(index)),
                 daysConsumed  |-> DistinctDates(data, CalendarMonth(index))]

\* The statements of C9 and C10 for a browser at or east of UTC, where the local
\* calendar day of new Date('yyyy-MM-dd') is the day of the string.
C9_EastOfUTC == tz >= 0 => C9_RowsAddUpToYear
C10_EastOfUTC == tz >= 0 => C10_RowIsCalendarMonth

\* the list is one a monthly fetch of the selected month returns
InSelectedMonth(recs) ==
    \A i \in DOMAIN recs :
        recs[i].date.y = currentDate.y /\ recs[i].date.m = currentDate.m

\* the records of the list whose stored date is `date`
RecordsDated(recs, date) == { i \in DOMAIN recs : recs[i].date = date }

\* C11: for every day d of the selected month, getDayTotal(d) is the sum of the
\* quantities of exactly the records whose stored date is d; a day with no
\* records gives 0 and its cell shows no total.
C11_DayTotalIsSumOfDay ==
    (pc = "monthly" /\ InSelectedMonth(statsRecords)) =>
        \A d \in getDaysInMonth :
            /\ getDayTotal(d) = QuantitySum(statsRecords, RecordsDated(statsRecords, d))
            /\ (RecordsDated(statsRecords, d) = {} =>
                    getDayTotal(d) = 0 /\ ~DayCellShowsTotal(d))

\* The statement of C11 for a browser at or east of UTC.
C11_EastOfUTC == tz >= 0 => C11_DayTotalIsSumOfDay

\* C25: for a monthly list of the selected month, the day totals of the rendered
\* days add up to the month total, the days that show a total are at most the
\* drinking days, and every record of the list is in the cell of some day.
C25_CalendarConservesMonth ==
    (pc = "monthly" /\ InSelectedMonth(statsRecords)) =>
        /\ SetSum(getDaysInMonth, [d \in getDaysInMonth |-> getDayTotal(d)]) = getMonthTotal
        /\ Cardinality({ d \in getDaysInMonth : getDayTotal(d) > 0 }) <= drinkingDays
        /\ \A i \in DOMAIN statsRecords :
                \E d \in getDaysInMonth : isSameDay(statsRecords[i].date, d)

\* C25 at or east of UTC
C25_EastOfUTC == tz >= 0 => C25_CalendarConservesMonth

\* the per-date quantity sums of a list
PerDateSums(recs) ==
    { QuantitySum(recs, RecordsDated(recs, recs[i].date)) : i \in DOMAIN recs }

\* C12: the summary exposes maxInDay, which is at least every per-date quantity
\* sum of the list and equal to the greatest of them, and 0 for the empty list.
C12_MaxInDay ==
    pc = "monthly" =>
        /\ "maxInDay" \in DOMAIN MonthSummary
        /\ \A n \in PerDateSums(statsRecords) : n <= MonthSummary.maxInDay
        /\ MonthSummary.maxInDay \in PerDateSums(statsRecords) \cup {0}
        /\ (statsRecords = <<>> => MonthSummary.maxInDay = 0)

(***************************************************************************)
(* RecordPage and the consumption_records table                            *)
(*                                                                         *)
(* A request to the store is served (the query runs on the table) and then *)
(* delivered (the await resumes); other events may fall between the two.   *)
(* A query that fails changes nothing in the table, so its failure is one  *)
(* step: the await resumes with an error.  The order of the rows           *)
(* of a select without ORDER BY is unspecified.  The form `records` is a   *)
(* function beer id -> quantity, 0 standing for "no key" (the code treats  *)
(* both alike: quantity > 0, records[id] || '').  The page stays mounted.  *)
(***************************************************************************)
RecDates == { Date(2024, 5, 1), Date(2024, 5, 2) }
RecBeers == { 1, 2 }                \* beer ids
FormQuantities == { 0, 1 }

EmptyForm == [b \in RecBeers |-> 0]

\* .eq('user_id', user.id).eq('date', date) on the table
RowsOfDate(table, date) ==
    LET S == { r \in DOMAIN table : r.date = date } IN [r \in S |-> table[r]]

\* (variant) deletes only the rows of the drinks whose form quantity is > 0
DeleteDate_FormDrinksOnly(table, date, form) ==
    LET S == { r \in DOMAIN table : ~(r.date = date /\ form[r.beer_id] > 0) }
    IN [r \in S |-> table[r]]

\* .delete().eq('user_id', user.id).eq('date', date)
DeleteDate(table, date, form) ==
    LET S == { r \in DOMAIN table : r.date # date } IN [r \in S |-> table[r]]

\* recordsToInsert: one row per form entry with quantity > 0
RecordsToInsert(date, form) ==
    LET S == { [date |-> date, beer_id |-> b, quantity |-> form[b]] :
                    b \in { b \in RecBeers : form[b] > 0 } }
    IN [r \in S |-> 1]

\* recordsObj: data.forEach(record => recordsObj[record.beer_id] = record.quantity);
\* of several rows of one beer the last one wins, and the order is unspecified.
FormsOf(rows) ==
    { f \in [RecBeers -> FormQuantities] :
        \A b \in RecBeers :
            IF \E r \in DOMAIN rows : r.beer_id = b
            THEN \E r \in DOMAIN rows : r.beer_id = b /\ r.quantity = f[b]
            ELSE f[b] = 0 }

\* a new loadRecords request for `date`; `loads` is the bag of those in flight
NewLoad(date) == SetToBag({ [date |-> date, status |-> "sent", data |-> EmptyBag] })
Served(l, rows) == SetToBag({ [l EXCEPT !.status = "ok", !.data = rows] })

RecordInit ==
    /\ store = EmptyBag /\ beerStore = {}
    /\ tz = 9 /\ now \in RecDates
    /\ IdleStats /\ IdleHome /\ IdleBeers /\ IdleAgg
    /\ selectedDate = now
    /\ records = EmptyForm
    /\ existingRecords = EmptyBag
    /\ loading = TRUE
    /\ saving = FALSE
    /\ loads = NewLoad(now)
    /\ save = [NoSave EXCEPT !.records = EmptyForm]

RecordOther == <<beerStore, envVars, statsVars, homeVars, beersVars, aggVars>>

\* The page shows the form (not the loading skeleton).
FormRendered == ~loading

\* the date input's onChange, and the effect it triggers: loadRecords()
SelectDate(date) ==
    /\ FormRendered
    /\ date # selectedDate
    /\ BagCardinality(loads) < MaxLoads
    /\ selectedDate' = date
    /\ loading' = TRUE
    /\ loads' = loads (+) NewLoad(date)
    /\ UNCHANGED <<store, records, existingRecords, saving, save, RecordOther>>

\* the store runs the select of a loadRecords request
LoadServe(l) ==
    /\ l.status = "sent"
    /\ loads' = (loads (-) SetToBag({l})) (+) Served(l, RowsOfDate(store, l.date))
    /\ UNCHANGED <<store, selectedDate, records, existingRecords, loading, saving,
                   save, RecordOther>>

\* loadRecords resumes after its await with the rows: setExistingRecords,
\* setRecords, and setLoading(false) in the finally block
LoadDeliver(l) ==
    /\ l.status = "ok"
    /\ loads' = loads (-) SetToBag({l})
    /\ existingRecords' = l.data
    /\ records' \in FormsOf(l.data)
    /\ loading' = FALSE
    /\ UNCHANGED <<store, selectedDate, saving, save, RecordOther>>

\* (variant) loadRecords without its finally block: a failed load leaves loading set
LoadFail_NoFinally(l) ==
    /\ l.status = "sent"
    /\ loads' = loads (-) SetToBag({l})
    /\ UNCHANGED <<store, selectedDate, records, existingRecords, loading, saving, save,
                   RecordOther>>

\* loadRecords resumes after its await with an error: the catch block logs it,
\* the finally block runs setLoading(false)
LoadFail(l) ==
    /\ l.status = "sent"
    /\ loads' = loads (-) SetToBag({l})
    /\ loading' = FALSE
    /\ UNCHANGED <<store, selectedDate, records, existingRecords, saving, save,
                   RecordOther>>

handleQuantityChange(beerId, qty) ==
    /\ FormRendered
    /\ records[beerId] # qty
    /\ records' = [records EXCEPT ![beerId] = qty]
    /\ UNCHANGED <<store, selectedDate, existingRecords, loading, saving, loads,
                   save, RecordOther>>

\* handleSave has ended after calling loadRecords(): the load it starts is for
\* the date of the render handleSave was created in.
SaveEndsWithReload(closure) ==
    /\ save' = [closure EXCEPT !.pc = "saved", !.existing = 0]
    /\ loads' = loads (+) NewLoad(closure.date)
    /\ loading' = TRUE
    /\ saving' = FALSE

\* handleSave has ended in its catch block
SaveEndsFailed(closure, how) ==
    /\ save' = [closure EXCEPT !.pc = how, !.existing = 0]
    /\ saving' = FALSE
    /\ UNCHANGED <<loads, loading>>

\* the click on the save button, up to the first await (or to the end when
\* there is nothing to delete and nothing to insert)
handleSave ==
    /\ FormRendered /\ ~saving
    /\ LET closure == [pc |-> "start", date |-> selectedDate, records |-> records,
                       existing |-> BagCardinality(existingRecords),
                       deleted |-> FALSE,
                       retry |-> save.pc = "insertFailed" /\ save.deleted
                                    /\ save.date = selectedDate]
       IN IF closure.existing > 0
          THEN /\ save' = [closure EXCEPT !.pc = "deleteSent"]
               /\ saving' = TRUE
               /\ UNCHANGED <<loads, loading>>
          ELSE IF RecordsToInsert(closure.date, closure.records) # EmptyBag
          THEN /\ save' = [closure EXCEPT !.pc = "insertSent"]
               /\ saving' = TRUE
               /\ UNCHANGED <<loads, loading>>
          ELSE /\ BagCardinality(loads) < MaxLoads
               /\ SaveEndsWithReload(closure)
    /\ UNCHANGED <<store, selectedDate, records, existingRecords, RecordOther>>

\* the store runs the delete of handleSave
DeleteServe ==
    /\ save.pc = "deleteSent"
    /\ store' = DeleteDate(store, save.date, save.records)
    /\ save' = [save EXCEPT !.pc = "deleteOk", !.deleted = TRUE]
    /\ UNCHANGED <<selectedDate, records, existingRecords, loading, saving, loads,
                   RecordOther>>

\* handleSave resumes after the delete: it goes on to the insert, or, with
\* nothing to insert, to loadRecords() and the finally block
DeleteDeliver ==
    /\ save.pc = "deleteOk"
    /\ IF RecordsToInsert(save.date, save.records) # EmptyBag
       THEN /\ save' = [save EXCEPT !.pc = "insertSent"]
            /\ UNCHANGED <<loads, loading, saving>>
       ELSE /\ BagCardinality(loads) < MaxLoads
            /\ SaveEndsWithReload(save)
    /\ UNCHANGED <<store, selectedDate, records, existingRecords, RecordOther>>

\* handleSave resumes after the delete with deleteError: throw, catch, finally
DeleteFail ==
    /\ save.pc = "deleteSent"
    /\ SaveEndsFailed(save, "deleteFailed")
    /\ UNCHANGED <<store, selectedDate, records, existingRecords, RecordOther>>

\* the store runs the insert of handleSave (one statement: all rows or none)
InsertServe ==
    /\ save.pc = "insertSent"
    /\ BagCardinality(store) + BagCardinality(RecordsToInsert(save.date, save.records))
            <= MaxRows
    /\ store' = store (+) RecordsToInsert(save.date, save.records)
    /\ save' = [save EXCEPT !.pc = "insertOk"]
    /\ UNCHANGED <<selectedDate, records, existingRecords, loading, saving, loads,
                   RecordOther>>

\* handleSave resumes after the insert: loadRecords() and the finally block
InsertDeliver ==
    /\ save.pc = "insertOk"
    /\ BagCardinality(loads) < MaxLoads
    /\ SaveEndsWithReload(save)
    /\ UNCHANGED <<store, selectedDate, records, existingRecords, RecordOther>>

\* handleSave resumes after the insert with insertError: throw, catch, finally
InsertFail ==
    /\ save.pc = "insertSent"
    /\ SaveEndsFailed(save, "insertFailed")
    /\ UNCHANGED <<store, selectedDate, records, existingRecords, RecordOther>>

RecordNext ==
    \/ \E date \in RecDates : SelectDate(date)
    \/ \E l \in BagToSet(loads) : LoadServe(l)
    \/ \E l \in BagToSet(loads) : LoadDeliver(l)
    \/ \E l \in BagToSet(loads) : LoadFail(l)
    \/ \E b \in RecBeers, q \in FormQuantities : handleQuantityChange(b, q)
    \/ handleSave
    \/ DeleteServe
    \/ DeleteDeliver
    \/ DeleteFail
    \/ InsertServe
    \/ InsertDeliver
    \/ InsertFail

SpecRecord == RecordInit /\ [][RecordNext]_vars

(***************************************************************************)
(* Properties of replace-on-save (checked under SpecRecord)                *)
(***************************************************************************)
SaveEnded == save.pc \in {"saved", "deleteFailed", "insertFailed"}

\* the store holds for the date of the last handleSave exactly the non-zero
\* entries of the form it saved
SavedExactly == RowsOfDate(store, save.date) = RecordsToInsert(save.date, save.records)

\* C1: after a handleSave whose remote operations all succeeded, the store holds
\* for its date exactly one row per drink with form quantity > 0, with that
\* quantity, and nothing else.
C1_ReplaceOnSave == save.pc = "saved" => SavedExactly

\* the delete of the last handleSave succeeded and its insert did not
InGap == save.deleted /\ save.pc = "insertFailed"

\* C2: delete succeeded, insert failed: the store holds no row for that date (so
\* a re-fetch returns the empty set) until a later save; the failing handleSave
\* leaves the form and existingRecords as they were; a successful retry for the
\* same date leaves exactly the non-zero form entries.
C2_PartialWriteGap ==
    /\ [](InGap => RowsOfDate(store, save.date) = EmptyBag)
    /\ [](save.pc = "saved" /\ save.retry => SavedExactly)
    /\ [][save.pc = "insertSent" /\ save'.pc = "insertFailed" =>
            /\ records' = records /\ existingRecords' = existingRecords
            /\ loads' = loads /\ store' = store]_vars

C2_Witness ==
    /\ save.pc = "saved" /\ save.retry
    /\ save.records[1] = 1 /\ save.records[2] = 0
    /\ store = RecordsToInsert(save.date, save.records)

\* what the page shows once a successful handleSave and the reload it starts
\* have ended: the form, with existingRecords holding the rows of its non-zero
\* entries for the selected date
LooksSaved ==
    /\ ~loading /\ ~saving
    /\ loads = EmptyBag
    /\ existingRecords = RecordsToInsert(selectedDate, records)

\* C17: a handleSave whose delete or insert failed is never presented as saved:
\* what the page shows after it differs from what it shows after a successful
\* save of the same form.
C17_FailedSaveIsDistinguishable ==
    (save.pc \in {"deleteFailed", "insertFailed"} /\ save.date = selectedDate
        /\ save.records = records) => ~LooksSaved

\* C20: whenever no load and no save is in flight, existingRecords holds rows of
\* the selected date only (they are what the form was filled from and what the
\* next handleSave decides its delete on).
C20_StaleResponseSafety ==
    (loads = EmptyBag /\ ~loading /\ ~saving) =>
        \A r \in DOMAIN existingRecords : r.date = selectedDate

\* C21: the store holds at most one consumption record per date and drink (of
\* the one owner of the page).
C21_OneRecordPerDateAndDrink ==
    \A r1, r2 \in DOMAIN store :
        (r1.date = r2.date /\ r1.beer_id = r2.beer_id) => (r1 = r2 /\ store[r1] = 1)

(***************************************************************************)
(* StatsPage: navigation, view toggle and the two fetches                  *)
(*                                                                         *)
(* Nothing writes the store while the page is shown, so a fetch is one     *)
(* step: it resumes with the rows of its range, or with an error.          *)
(***************************************************************************)
StatsYears == 2023..2024
StatsBeer  == [id |-> 1, sort_order |-> 0, volume |-> 500, alcohol_percentage |-> 5]
StatsDates == { Date(2023, 12, 31), Date(2024, 1, 1), Date(2024, 1, 31), Date(2024, 2, 1) }
StatsRows  == [date : StatsDates, beer_id : {1}, quantity : {1}]

\* addMonths / subMonths: the day is capped at the length of the target month
addMonths(dt, n) ==
    LET mi == (dt.y * 12 + (dt.m - 1)) + n
        y  == mi \div 12
        m  == (mi % 12) + 1
    IN [y |-> y, m |-> m,
        d |-> IF dt.d < DaysInMonth(y, m) THEN dt.d ELSE DaysInMonth(y, m)]
subMonths(dt, n) == addMonths(dt, 0 - n)

\* the embedded resource beer:beers(name, volume, alcohol_percentage)
JoinBeer(row) ==
    IF \E b \in beerStore : b.id = row.beer_id
    THEN LET b == CHOOSE b \in beerStore : b.id = row.beer_id
         IN Beer(b.volume, b.alcohol_percentage)
    ELSE NullBeer

\* the orders in which a select may return the rows of the bag B
OrdersOf(B) ==
    { s \in [1..BagCardinality(B) -> DOMAIN B] :
        \A r \in DOMAIN B : Cardinality({ i \in DOMAIN s : s[i] = r }) = B[r] }

IsSortedByDate(s) == \A i, j \in DOMAIN s : i < j => DateLeq(s[i].date, s[j].date)

\* .gte('date', from).lte('date', to) on the table
RowsInRange(table, from, to) ==
    LET S == { r \in DOMAIN table : DateLeq(from, r.date) /\ DateLeq(r.date, to) }
    IN [r \in S |-> table[r]]

\* select `*, beer:beers(...)`: the row's own columns and the embedded beer
Joined(s) == [i \in DOMAIN s |->
                [date |-> s[i].date, beer_id |-> s[i].beer_id, beer |-> JoinBeer(s[i]),
                 quantity |-> s[i].quantity]]

\* what a fetch may resume with
FetchResults(f) ==
    LET orders == OrdersOf(RowsInRange(store, f.from, f.to))
    IN IF f.kind = "monthly"
       THEN { Joined(s) : s \in { o \in orders : IsSortedByDate(o) } }
       ELSE { Joined(s) : s \in orders }

\* the request loadMonthlyRecords / loadYearlyStats sends for the date `dt`
MonthlyFetch(dt) == [kind |-> "monthly", from |-> startOfMonth(dt), to |-> endOfMonth(dt)]
YearlyFetch(dt)  == [kind |-> "yearly", from |-> Date(getYear(dt), 1, 1),
                     to |-> Date(getYear(dt), 12, 31)]

\* the effect of [user, currentDate, view]: start the fetch of the view
StartFetch(dt, v) ==
    /\ statsLoading' = TRUE
    /\ fetches' = fetches (+) SetToBag({ IF v = "calendar" THEN MonthlyFetch(dt)
                                          ELSE YearlyFetch(dt) })

StatsInit ==
    /\ store \in { SetToBag(S) : S \in SUBSET StatsRows }
    /\ beerStore = { StatsBeer }
    /\ tz \in TimeZones
    /\ now = Date(2024, 1, 31)
    /\ IdleRecord /\ IdleHome /\ IdleBeers /\ IdleAgg
    /\ currentDate = now
    /\ statsRecords = <<>>
    /\ yearlyStats = <<>>
    /\ statsLoading = TRUE
    /\ view = "calendar"
    /\ fetches = SetToBag({ MonthlyFetch(now) })

StatsOther == <<storeVars, envVars, recordVars, homeVars, beersVars, aggVars>>

\* (variant) the controls are shown while a fetch is running
ControlsRendered_Always == TRUE

\* The page shows its controls: "if (loading) return <skeleton>" did not return.
ControlsRendered == ~statsLoading

navigateMonth(direction) ==
    /\ ControlsRendered /\ view = "calendar"
    /\ BagCardinality(fetches) < MaxFetches
    /\ LET next == IF direction = "prev" THEN subMonths(currentDate, 1)
                   ELSE addMonths(currentDate, 1)
       IN /\ next.y \in StatsYears
          /\ currentDate' = next
          /\ StartFetch(next, view)
    /\ UNCHANGED <<statsRecords, yearlyStats, view, StatsOther>>

navigateYear(direction) ==
    /\ ControlsRendered /\ view = "yearly"
    /\ BagCardinality(fetches) < MaxFetches
    /\ LET next == Date(getYear(currentDate) + (IF direction = "prev" THEN -1 ELSE 1), 1, 1)
       IN /\ next.y \in StatsYears
          /\ currentDate' = next
          /\ StartFetch(next, view)
    /\ UNCHANGED <<statsRecords, yearlyStats, view, StatsOther>>

\* setView(v): a state set to its own value starts no effect
setView(v) ==
    /\ ControlsRendered /\ v # view
    /\ BagCardinality(fetches) < MaxFetches
    /\ view' = v
    /\ StartFetch(currentDate, v)
    /\ UNCHANGED <<currentDate, statsRecords, yearlyStats, StatsOther>>

\* a fetch resumes with rows
FetchDeliver(f) ==
    /\ fetches' = fetches (-) SetToBag({f})
    /\ \E rows \in FetchResults(f) :
        IF f.kind = "monthly"
        THEN statsRecords' = rows /\ UNCHANGED yearlyStats
        ELSE yearlyStats' = MonthlyStats(rows) /\ UNCHANGED statsRecords
    /\ statsLoading' = FALSE
    /\ UNCHANGED <<currentDate, view, StatsOther>>

\* a fetch resumes with an error: catch logs it, finally runs setLoading(false)
FetchFail(f) ==
    /\ fetches' = fetches (-) SetToBag({f})
    /\ statsLoading' = FALSE
    /\ UNCHANGED <<currentDate, statsRecords, yearlyStats, view, StatsOther>>

StatsNext ==
    \/ \E direction \in {"prev", "next"} : navigateMonth(direction)
    \/ \E direction \in {"prev", "next"} : navigateYear(direction)
    \/ \E v \in {"calendar", "yearly"} : setView(v)
    \/ \E f \in BagToSet(fetches) : FetchDeliver(f)
    \/ \E f \in BagToSet(fetches) : FetchFail(f)

SpecStats == StatsInit /\ [][StatsNext]_vars

(***************************************************************************)
(* Properties of StatsPage (checked under SpecStats)                       *)
(***************************************************************************)
\* C3: at most one record fetch is in flight at any time; the controls are
\* rendered only when none is.
C3_OneFetchInFlight ==
    /\ BagCardinality(fetches) <= 1
    /\ ~statsLoading => fetches = EmptyBag

C3_Witness ==
    /\ fetches = SetToBag({ YearlyFetch(Date(2023, 1, 1)) })
    /\ currentDate = Date(2023, 1, 1)
    /\ statsRecords # <<>> /\ yearlyStats # <<>>

\* the rows of the table dated in the calendar month / the calendar year of dt
RowsOfMonth(table, dt) == { r \in DOMAIN table : r.date.y = dt.y /\ r.date.m = dt.m }
RowsOfYear(table, dt)  == { r \in DOMAIN table : r.date.y = dt.y }

\* the list holds the rows of S, each as often as the table does, and nothing else
HoldsExactly(list, table, S) ==
    /\ \A r \in S :
          Cardinality({ i \in DOMAIN list : /\ list[i].date = r.date
                                            /\ list[i].beer_id = r.beer_id
                                            /\ list[i].quantity = r.quantity }) = table[r]
    /\ Len(list) = SetSum(S, [r \in DOMAIN table |-> table[r]])

\* C18: a monthly fetch delivers exactly the stored records dated in the selected
\* month, its first and last day included and no day of an adjacent month; a
\* yearly fetch delivers statistics over exactly the records dated in the
\* selected year, 1 January and 31 December included.
C18_InclusiveRange ==
    [][\A f \in BagToSet(fetches) : FetchDeliver(f) =>
          IF f.kind = "monthly"
          THEN /\ HoldsExactly(statsRecords', store, RowsOfMonth(store, currentDate))
               /\ getMonthTotal' =
                     SetSum(RowsOfMonth(store, currentDate),
                            [r \in DOMAIN store |-> store[r] * r.quantity])
          ELSE YearlySummary'.totalQuantity =
                     SetSum(RowsOfYear(store, currentDate),
                            [r \in DOMAIN store |-> store[r] * r.quantity])]_vars

\* January 2024 and the year 2024 have been fetched from a store that holds a
\* record on each side of both ends of January
C18_Witness ==
    /\ { r.date : r \in DOMAIN store } = StatsDates
    /\ ~statsLoading /\ view = "yearly" /\ currentDate = Date(2024, 1, 31)
    /\ Len(statsRecords) = 2
    /\ statsRecords[1].date = Date(2024, 1, 1) /\ statsRecords[2].date = Date(2024, 1, 31)
    /\ YearlySummary.totalQuantity = 3

\* C23: in the calendar view, whenever the page is not loading, every record of
\* the records state is dated in the month of currentDate (no record of another
\* month is shown under the selected month).
C23_RecordsAreOfSelectedMonth ==
    (view = "calendar" /\ ~statsLoading) =>
        \A i \in DOMAIN statsRecords :
            /\ statsRecords[i].date.y = currentDate.y
            /\ statsRecords[i].date.m = currentDate.m

\* the records of the list that are of the drink `id`
RecordsOfDrink(recs, id) == { i \in DOMAIN recs : recs[i].beer_id = id }
\* the place in the list where the drink `id` is first met
FirstMet(recs, id) == CHOOSE i \in RecordsOfDrink(recs, id) :
                            \A j \in RecordsOfDrink(recs, id) : i <= j

\* `ranking` is the ranking of the list: one entry per distinct drink id with its
\* aggregated quantity and volume, by descending quantity, ties in the order met
IsRanking(ranking, recs) ==
    /\ { ranking[k].beer_id : k \in DOMAIN ranking } = { recs[i].beer_id : i \in DOMAIN recs }
    /\ \A j, k \in DOMAIN ranking : j # k => ranking[j].beer_id # ranking[k].beer_id
    /\ \A k \in DOMAIN ranking :
        LET of == RecordsOfDrink(recs, ranking[k].beer_id)
        IN /\ ranking[k].quantity = SetSum(of, [i \in DOMAIN recs |-> recs[i].quantity])
           /\ ranking[k].volume =
                SetSum(of, [i \in DOMAIN recs |-> recs[i].quantity * recs[i].beer.volume])
    /\ \A j, k \in DOMAIN ranking : j < k =>
        \/ ranking[j].quantity > ranking[k].quantity
        \/ /\ ranking[j].quantity = ranking[k].quantity
           /\ FirstMet(recs, ranking[j].beer_id) < FirstMet(recs, ranking[k].beer_id)

\* C13: the summary exposes a ranking with one entry per distinct drink id
\* (aggregated quantity and volume), by descending aggregated quantity, drinks of
\* equal quantity in the order in which the list first meets them.
C13_Ranking ==
    (~statsLoading /\ view = "calendar") =>
        /\ "ranking" \in DOMAIN MonthSummary
        /\ IsRanking(MonthSummary.ranking, statsRecords)

(***************************************************************************)
(* BeersPage and the beers table                                           *)
(*                                                                         *)
(* A beers row is [id, sort_order, volume, alcohol_percentage] (name and   *)
(* type are edited like volume and are left out).  `beers` holds the rows  *)
(* as last loaded or reordered; editingBeer is the row handleEdit was      *)
(* given (NoBeer for null).  showForm only shows or hides the form and is  *)
(* left out: submitting a new beer stands for opening the form and         *)
(* submitting it.  A handler's write to the store is one step with the     *)
(* click; the loadBeers it starts ends in a step of its own.  The query    *)
(* builders resolve with an error value instead of rejecting, so           *)
(* Promise.all in moveBeer always resolves.                                *)
(***************************************************************************)
BeerVolumes == { 500 }

BeersInit ==
    /\ store = EmptyBag /\ beerStore = {}
    /\ tz = 9 /\ now = Date(2024, 5, 1)
    /\ IdleRecord /\ IdleStats /\ IdleHome /\ IdleAgg
    /\ beers = <<>>
    /\ beersLoading = TRUE
    /\ editingBeer = NoBeer
    /\ nextBeerId = 1

BeersOther == <<envVars, recordVars, statsVars, homeVars, aggVars>>

\* The page shows the list (not the loading skeleton).
ListRendered == ~beersLoading

\* the orders in which .order('sort_order', { ascending: true }) may return the rows
SortedBySortOrder(table) ==
    { s \in [1..Cardinality(table) -> table] :
        /\ \A r \in table : \E i \in DOMAIN s : s[i] = r
        /\ \A i, j \in DOMAIN s : i < j => s[i].sort_order <= s[j].sort_order }

\* loadBeers resumes with the rows
LoadBeersDeliver ==
    /\ beersLoading
    /\ beers' \in SortedBySortOrder(beerStore)
    /\ beersLoading' = FALSE
    /\ UNCHANGED <<storeVars, editingBeer, nextBeerId, BeersOther>>

\* loadBeers resumes with an error
LoadBeersFail ==
    /\ beersLoading
    /\ beersLoading' = FALSE
    /\ UNCHANGED <<storeVars, beers, editingBeer, nextBeerId, BeersOther>>

\* sort_order of a new beer: beers.length
NewSortOrder == Len(beers)

\* handleSubmit without editingBeer
handleSubmitCreate(volume) ==
    /\ ListRendered /\ editingBeer = NoBeer
    /\ nextBeerId <= MaxBeers
    /\ \/ /\ beerStore' = beerStore \cup
                { [id |-> nextBeerId, sort_order |-> NewSortOrder, volume |-> volume,
                   alcohol_percentage |-> 5] }
          /\ nextBeerId' = nextBeerId + 1
          /\ beersLoading' = TRUE
       \/ UNCHANGED <<beerStore, nextBeerId, beersLoading>>       \* insert error
    /\ UNCHANGED <<store, beers, editingBeer, BeersOther>>

handleEdit(i) ==
    /\ ListRendered /\ i \in DOMAIN beers
    /\ editingBeer # beers[i]
    /\ editingBeer' = beers[i]
    /\ UNCHANGED <<storeVars, beers, beersLoading, nextBeerId, BeersOther>>

cancelForm ==
    /\ ListRendered /\ editingBeer # NoBeer
    /\ editingBeer' = NoBeer
    /\ UNCHANGED <<storeVars, beers, beersLoading, nextBeerId, BeersOther>>

\* handleSubmit with editingBeer: update(beerData).eq('id', editingBeer.id),
\* beerData.sort_order being editingBeer.sort_order
handleSubmitEdit(volume) ==
    /\ ListRendered /\ editingBeer # NoBeer
    /\ \/ /\ beerStore' =
                { IF b.id = editingBeer.id
                  THEN [b EXCEPT !.volume = volume, !.sort_order = editingBeer.sort_order]
                  ELSE b : b \in beerStore }
          /\ editingBeer' = NoBeer
          /\ beersLoading' = TRUE
       \/ UNCHANGED <<beerStore, editingBeer, beersLoading>>       \* update error
    /\ UNCHANGED <<store, beers, nextBeerId, BeersOther>>

\* (variant) the foreign key without its ON DELETE CASCADE action taking effect
CascadeDelete_None(table, id) == table

\* beer_id uuid REFERENCES beers(id) ON DELETE CASCADE: the consumption_records
\* rows that reference the deleted beer go with it
CascadeDelete(table, id) ==
    LET S == { r \in DOMAIN table : r.beer_id # id } IN [r \in S |-> table[r]]

\* handleDelete (confirmed): the row goes, and with it the consumption records
\* that reference it (ON DELETE CASCADE)
handleDelete(id) ==
    /\ ListRendered /\ \E i \in DOMAIN beers : beers[i].id = id
    /\ \/ /\ beerStore' = { b \in beerStore : b.id # id }
          /\ store' = CascadeDelete(store, id)
          /\ beersLoading' = TRUE
       \/ UNCHANGED <<beerStore, store, beersLoading>>             \* delete error
    /\ UNCHANGED <<beers, editingBeer, nextBeerId, BeersOther>>

\* (variant) the second assignment of the exchange is lost
Swapped_CopyOnly(list, index, targetIndex) ==
    [list EXCEPT ![index] = list[targetIndex]]

\* newBeers: beers with the entries at index and targetIndex exchanged
Swapped(list, index, targetIndex) ==
    [list EXCEPT ![index] = list[targetIndex], ![targetIndex] = list[index]]

\* targetIndex (positions count from 1 here, from 0 in the code)
MoveTarget(index, direction) == IF direction = "up" THEN index - 1 ELSE index + 1

\* moveBeer(index, direction); `done` are the positions of newBeers whose
\* update({ sort_order: i }).eq('id', beer.id) succeeded (i counts from 0).
\* With targetIndex out of range the function returns before it does anything.
moveBeer(index, direction, done) ==
    /\ ListRendered /\ index \in DOMAIN beers
    /\ LET targetIndex == MoveTarget(index, direction)
       IN IF targetIndex \notin DOMAIN beers
          THEN UNCHANGED <<beerStore, beers>>
          ELSE LET newBeers == Swapped(beers, index, targetIndex)
               IN /\ beerStore' =
                        { IF \E i \in done : newBeers[i].id = b.id
                          THEN [b EXCEPT !.sort_order =
                                  (CHOOSE i \in done : newBeers[i].id = b.id) - 1]
                          ELSE b : b \in beerStore }
                  /\ beers' = newBeers
    /\ UNCHANGED <<store, beersLoading, editingBeer, nextBeerId, BeersOther>>

BeersNext ==
    \/ LoadBeersDeliver
    \/ LoadBeersFail
    \/ \E volume \in BeerVolumes : handleSubmitCreate(volume)
    \/ \E i \in DOMAIN beers : handleEdit(i)
    \/ cancelForm
    \/ \E volume \in BeerVolumes : handleSubmitEdit(volume)
    \/ \E id \in { beers[i].id : i \in DOMAIN beers } : handleDelete(id)
    \/ \E index \in DOMAIN beers, direction \in {"up", "down"},
          done \in SUBSET DOMAIN beers : moveBeer(index, direction, done)

SpecBeers == BeersInit /\ [][BeersNext]_vars

(***************************************************************************)
(* Properties of BeersPage (checked under SpecBeers)                       *)
(***************************************************************************)
\* C4: the sort positions stored for the owner's beers are pairwise distinct.
C4_SortPositionsDistinct ==
    \A a, b \in beerStore : a.id # b.id => a.sort_order # b.sort_order

\* C14: a moveBeer whose updates all succeed exchanges exactly the drink at index
\* with its neighbour, leaves every other drink of the list in its place, and
\* leaves the stored sort position of every drink of the list equal to its
\* index in the new order (and nothing else of the store changed); with the
\* target index out of range it changes no state.
C14_MoveBeerSwaps ==
    [][\A index \in DOMAIN beers, direction \in {"up", "down"} :
        moveBeer(index, direction, DOMAIN beers) =>
            LET t == MoveTarget(index, direction)
            IN IF t \in DOMAIN beers
               THEN /\ DOMAIN beers' = DOMAIN beers
                    /\ beers'[index] = beers[t] /\ beers'[t] = beers[index]
                    /\ \A k \in DOMAIN beers \ {index, t} : beers'[k] = beers[k]
                    /\ \A k \in DOMAIN beers' : \A b \in beerStore' :
                            b.id = beers'[k].id => b.sort_order = k - 1
                    /\ { [b EXCEPT !.sort_order = 0] : b \in beerStore' }
                            = { [b EXCEPT !.sort_order = 0] : b \in beerStore }
                    /\ \A b \in beerStore' :
                            (\A k \in DOMAIN beers' : beers'[k].id # b.id) => b \in beerStore
               ELSE UNCHANGED vars]_vars

\* a list of three that only a reorder produces (the local rows keep the
\* sort_order they were loaded with), with the store following the new order
C14_Witness ==
    /\ Len(beers) = 3
    /\ beers[1].id = 2 /\ beers[2].id = 1 /\ beers[3].id = 3
    /\ beers[1].sort_order = 1 /\ beers[2].sort_order = 0
    /\ \A k \in DOMAIN beers : \E b \in beerStore : b.id = beers[k].id /\ b.sort_order = k - 1

\* the drinks of a list, in its order
IdsOf(list) == [i \in DOMAIN list |-> list[i].id]

\* the orders of the drinks that a loadBeers of the store may return
FetchedOrders == { IdsOf(s) : s \in SortedBySortOrder(beerStore) }

\* C22: a moveBeer of which an update fails leaves the local order as it was,
\* and after a moveBeer on a list that was in a stored order the local order is
\* again an order that fetching the drinks by stored sort position returns.
C22_FailedMoveKeepsOrder ==
    [][\A index \in DOMAIN beers, direction \in {"up", "down"},
         done \in SUBSET DOMAIN beers :
          (IdsOf(beers) \in FetchedOrders /\ moveBeer(index, direction, done)) =>
              /\ (done # DOMAIN beers /\ MoveTarget(index, direction) \in DOMAIN beers)
                    => beers' = beers
              /\ IdsOf(beers') \in FetchedOrders']_vars

(***************************************************************************)
(* The Record Store with two owners                                        *)
(*                                                                         *)
(* The tables hold the rows of every user, each with its user_id.  A       *)
(* statement runs as the signed-in user `uid`: the row-level-security      *)
(* policy USING (auth.uid() = user_id) limits the rows it sees and the     *)
(* rows it may write, the foreign key beer_id REFERENCES beers(id) ON      *)
(* DELETE CASCADE is enforced regardless of the policy.  Each user has a   *)
(* session of the app: beers[uid] is the list its loadBeers last returned, *)
(* existingRecords[uid] the rows its loadRecords last returned.  A handler *)
(* is one step, and there is one date.                                     *)
(***************************************************************************)
Users == { 1, 2 }

\* (variant) the owner test lets every row through
OwnedBy_Anyone(row, uid) == TRUE

\* auth.uid() = user_id, and the queries' .eq('user_id', user.id)
OwnedBy(row, uid) == row.user_id = uid

\* the rows of a table (a set) that the policy lets `uid` see and change
Visible(table, uid) == { r \in table : OwnedBy(r, uid) }

\* the same for the consumption_records bag
VisibleRecords(table, uid) ==
    LET S == { r \in DOMAIN table : OwnedBy(r, uid) } IN [r \in S |-> table[r]]

StoreDate == Date(2024, 5, 1)

StoreInit ==
    /\ store = EmptyBag /\ beerStore = {}
    /\ tz = 9 /\ now = StoreDate
    /\ IdleStats /\ IdleHome /\ IdleAgg
    /\ selectedDate = StoreDate /\ records = <<>> /\ loading = FALSE /\ saving = FALSE
    /\ loads = EmptyBag /\ save = NoSave
    /\ existingRecords = [uid \in Users |-> EmptyBag]
    /\ beers = [uid \in Users |-> <<>>]
    /\ beersLoading = FALSE /\ editingBeer = NoBeer
    /\ nextBeerId = 1

StoreOther == <<envVars, statsVars, homeVars, aggVars, selectedDate, records, loading,
                saving, loads, save, beersLoading, editingBeer>>

\* loadBeers of `uid`: select * from beers where user_id = uid order by sort_order
UserLoadBeers(uid) ==
    /\ beers' \in { [beers EXCEPT ![uid] = list] :
                        list \in SortedBySortOrder(Visible(beerStore, uid)) }
    /\ UNCHANGED <<storeVars, existingRecords, nextBeerId, StoreOther>>

\* handleSubmit without editingBeer: insert beerData with user_id = uid; the
\* policy checks the new row
UserCreateBeer(uid) ==
    /\ nextBeerId <= MaxStoreBeers
    /\ LET row == [id |-> nextBeerId, user_id |-> uid, sort_order |-> Len(beers[uid]),
                   volume |-> 500, alcohol_percentage |-> 5]
       IN IF OwnedBy(row, uid)
          THEN beerStore' = beerStore \cup {row} /\ nextBeerId' = nextBeerId + 1
          ELSE UNCHANGED <<beerStore, nextBeerId>>
    /\ UNCHANGED <<store, beers, existingRecords, StoreOther>>

\* handleSubmit with editingBeer = beers[uid][i]: update(beerData).eq('id', ...)
UserEditBeer(uid, i) ==
    /\ i \in DOMAIN beers[uid]
    /\ beerStore' =
         { IF b \in Visible(beerStore, uid) /\ b.id = beers[uid][i].id
           THEN [b EXCEPT !.user_id = uid, !.sort_order = beers[uid][i].sort_order]
           ELSE b : b \in beerStore }
    /\ UNCHANGED <<store, beers, existingRecords, nextBeerId, StoreOther>>

\* handleDelete(id) for a beer of the list: delete().eq('id', id), with the cascade
UserDeleteBeer(uid, id) ==
    /\ \E i \in DOMAIN beers[uid] : beers[uid][i].id = id
    /\ LET gone == { b \in Visible(beerStore, uid) : b.id = id }
       IN /\ beerStore' = beerStore \ gone
          /\ store' = IF gone = {} THEN store ELSE CascadeDelete(store, id)
    /\ UNCHANGED <<beers, existingRecords, nextBeerId, StoreOther>>

\* moveBeer(index, direction) with every update succeeding
UserMoveBeer(uid, index, direction) ==
    /\ index \in DOMAIN beers[uid]
    /\ MoveTarget(index, direction) \in DOMAIN beers[uid]
    /\ LET newBeers == Swapped(beers[uid], index, MoveTarget(index, direction))
       IN /\ beerStore' =
                { IF b \in Visible(beerStore, uid)
                        /\ \E i \in DOMAIN newBeers : newBeers[i].id = b.id
                  THEN [b EXCEPT !.sort_order =
                            (CHOOSE i \in DOMAIN newBeers : newBeers[i].id = b.id) - 1]
                  ELSE b : b \in beerStore }
          /\ beers' = [beers EXCEPT ![uid] = newBeers]
    /\ UNCHANGED <<store, existingRecords, nextBeerId, StoreOther>>

\* loadRecords of `uid`: select * where user_id = uid and date = selectedDate
UserLoadRecords(uid) ==
    /\ existingRecords' =
         [existingRecords EXCEPT ![uid] =
            LET S == { r \in DOMAIN VisibleRecords(store, uid) :
                            r.user_id = uid /\ r.date = selectedDate }
            IN [r \in S |-> store[r]]]
    /\ UNCHANGED <<storeVars, beers, nextBeerId, StoreOther>>

\* the rows handleSave of `uid` inserts for the drinks `drinks` of its form
UserRecordsToInsert(uid, drinks) ==
    LET S == { [date |-> selectedDate, beer_id |-> id, quantity |-> 1, user_id |-> uid] :
                    id \in drinks }
    IN [r \in S |-> 1]

\* handleSave of `uid` with quantity 1 for the drinks `drinks` of its list: the
\* delete (if existingRecords is not empty), then the insert, which the store
\* refuses as a whole when a row fails the policy or references no beer
UserSave(uid, drinks) ==
    /\ drinks \subseteq { beers[uid][i].id : i \in DOMAIN beers[uid] }
    /\ LET afterDelete ==
                IF existingRecords[uid] # EmptyBag
                THEN LET S == { r \in DOMAIN store :
                                  ~(r \in DOMAIN VisibleRecords(store, uid)
                                        /\ r.user_id = uid /\ r.date = selectedDate) }
                     IN [r \in S |-> store[r]]
                ELSE store
           rows == UserRecordsToInsert(uid, drinks)
           accepted ==
                /\ \A r \in DOMAIN rows : OwnedBy(r, uid)
                /\ \A r \in DOMAIN rows : \E b \in beerStore : b.id = r.beer_id
                /\ BagCardinality(afterDelete) + BagCardinality(rows) <= MaxRows
       IN store' = IF accepted THEN afterDelete (+) rows ELSE afterDelete
    /\ UNCHANGED <<beerStore, beers, existingRecords, nextBeerId, StoreOther>>

\* the operations of the session of `uid`
ActsAs(uid) ==
    \/ UserLoadBeers(uid)
    \/ UserCreateBeer(uid)
    \/ \E i \in DOMAIN beers[uid] : UserEditBeer(uid, i)
    \/ \E i \in DOMAIN beers[uid] : UserDeleteBeer(uid, beers[uid][i].id)
    \/ \E index \in DOMAIN beers[uid], direction \in {"up", "down"} :
            UserMoveBeer(uid, index, direction)
    \/ UserLoadRecords(uid)
    \/ \E drinks \in SUBSET (1..MaxStoreBeers) : UserSave(uid, drinks)

StoreNext == \E uid \in Users : ActsAs(uid)

SpecStore == StoreInit /\ [][StoreNext]_vars

(***************************************************************************)
(* Properties of the Record Store (checked under SpecStore)                *)
(***************************************************************************)
\* C15: after a drink is deleted no consumption record that references it is
\* left and the records of other drinks are as they were; in every state each
\* consumption record references a drink the store holds.
C15_ReferentialIntegrity ==
    /\ [](\A r \in DOMAIN store : \E b \in beerStore : b.id = r.beer_id)
    /\ [][\A uid \in Users : \A id \in 1..MaxStoreBeers :
            (UserDeleteBeer(uid, id) /\ beerStore' # beerStore) =>
                /\ \A r \in DOMAIN store' : r.beer_id # id
                /\ \A r \in DOMAIN store :
                        r.beer_id # id => r \in DOMAIN store' /\ store'[r] = store[r]
                /\ DOMAIN store' \subseteq DOMAIN store]_vars

\* drink 1 is gone with its record (a cached copy of the record is still in a
\* session), the record of drink 2 is still there
C15_Witness ==
    /\ \E uid \in Users : \E r \in DOMAIN existingRecords[uid] : r.beer_id = 1
    /\ \A b \in beerStore : b.id # 1
    /\ \A r \in DOMAIN store : r.beer_id # 1
    /\ \E r \in DOMAIN store : r.beer_id = 2

\* C16: what a session has loaded is its user's own; a step of a user's session
\* leaves the rows of every other user in both tables, and what the other
\* sessions have loaded, as they were (so every row it writes is its user's).
C16_OwnerIsolation ==
    /\ [](\A uid \in Users :
            /\ \A i \in DOMAIN beers[uid] : beers[uid][i].user_id = uid
            /\ \A r \in DOMAIN existingRecords[uid] : r.user_id = uid)
    /\ [][\A uid \in Users : ActsAs(uid) =>
            /\ { b \in beerStore' : b.user_id # uid } = { b \in beerStore : b.user_id # uid }
            /\ \A r \in DOMAIN store \cup DOMAIN store' :
                    r.user_id # uid => CopiesIn(r, store') = CopiesIn(r, store)
            /\ \A other \in Users \ {uid} :
                    /\ beers'[other] = beers[other]
                    /\ existingRecords'[other] = existingRecords[other]]_vars

\* both users hold a drink and a record of it, and each session has loaded its own
C16_Witness ==
    \A uid \in Users :
        /\ \E b \in beerStore : b.user_id = uid
        /\ \E r \in DOMAIN store : r.user_id = uid
        /\ beers[uid] # <<>> /\ existingRecords[uid] # EmptyBag

(***************************************************************************)
(* Progress of the busy flags on RecordPage and StatsPage                  *)
(*                                                                         *)
(* One of the two pages is mounted (its date state is set).  Every remote  *)
(* request resolves: the store runs it and the await resumes, with rows or *)
(* with an error.  The continuation of handleSave may have to wait in the  *)
(* model for a free place among the loads in flight (MaxLoads), which the  *)
(* code does not; it is therefore given strong fairness.                   *)
(***************************************************************************)
RecordMounted == selectedDate # NoDate
StatsMounted  == currentDate # NoDate

BusyInit == RecordInit \/ StatsInit

\* a loadRecords request makes its next step
LoadResolves ==
    \E l \in BagToSet(loads) : LoadServe(l) \/ LoadDeliver(l) \/ LoadFail(l)

\* the request handleSave awaits makes its next step, or handleSave resumes
SaveResumes ==
    \/ DeleteServe \/ DeleteDeliver \/ DeleteFail
    \/ InsertServe \/ InsertDeliver \/ InsertFail

\* a fetch of StatsPage resolves
FetchResolves ==
    \E f \in BagToSet(fetches) : FetchFail(f) \/ FetchDeliver(f)

BusyNext ==
    \/ RecordMounted /\ RecordNext
    \/ StatsMounted /\ StatsNext

SpecBusy ==
    /\ BusyInit /\ [][BusyNext]_vars
    /\ WF_vars(LoadResolves)
    /\ SF_vars(SaveResumes)
    /\ WF_vars(FetchResolves)

\* C24: the loading flag of RecordPage, its saving flag, and the loading flag of
\* StatsPage, once set, are each eventually cleared, whether the requests
\* succeed or fail.
C24_BusyFlagsClear ==
    /\ loading ~> ~loading
    /\ saving ~> ~saving
    /\ statsLoading ~> ~statsLoading

\* a handleSave has ended in its catch block and the page is idle again
C24_Witness ==
    /\ RecordMounted
    /\ save.pc \in {"deleteFailed", "insertFailed"}
    /\ ~saving /\ ~loading /\ loads = EmptyBag

====
